---- MODULE Spec2Model ----
(***************************************************************************)
(* A model of the LegalAi services.                                        *)
(*                                                                         *)
(*   contract_draft.py  POST /api/contract: the relevance filter, the      *)
(*                      session store, the intent dispatcher.              *)
(*   app.py             the case-analysis service: upload-case,            *)
(*                      ask-question, session info and delete over         *)
(*                      case_sessions.                                     *)
(*                                                                         *)
(* Text is modelled as the code handles it.  Queries and the short LLM     *)
(* answers that the code compares (intent names, RELEVANT / IRRELEVANT)    *)
(* are sequences of one-character strings, so that lower(), upper(),       *)
(* strip() and Python's substring test `in` are computed, not assumed.     *)
(* Long generated text (a contract) is a pair (id, len): two texts are     *)
(* equal iff both agree, and text[:k] is (id, min(len, k)).                *)
(***************************************************************************)
EXTENDS Integers, Sequences, FiniteSets, TLC

VARIABLES
    contract_sessions,  \* session_id -> [contracts, active_contract_id]
    next_contract,      \* number of contract ids minted so far
    req,                \* request slot -> the handler's position and locals
    handled,            \* number of requests received so far
    clock,              \* the clock behind uuid1().time
    draft_log,          \* history: <<session_id, contract_id>> of each successful DRAFT
    rel,                \* the relevance filter run on its own
    case_sessions,      \* app.py: session_id -> [case_text, filename, upload_time]
    case_req,           \* app.py: the request in hand, its locals and its response
    case_log            \* app.py: history: ids minted, ids deleted, requests received

case_vars == <<case_sessions, case_req, case_log>>

vars == <<contract_sessions, next_contract, req, handled, clock, draft_log, rel,
          case_sessions, case_req, case_log>>

(***************************************************************************)
(* Bounds of the model.                                                    *)
(***************************************************************************)
MaxRequests == 3
MaxWords == 2

(***************************************************************************)
(* str.lower(), str.upper(), str.strip() and the substring test.           *)
(***************************************************************************)
LowerChars == <<"a","b","c","d","e","f","g","h","i","j","k","l","m","n","o","p","q","r","s","t","u","v","w","x","y","z">>
UpperChars == <<"A","B","C","D","E","F","G","H","I","J","K","L","M","N","O","P","Q","R","S","T","U","V","W","X","Y","Z">>
Whitespace == {" ", "\n", "\t", "\r"}

ToLower(c) ==
    IF \E i \in 1..Len(UpperChars) : UpperChars[i] = c
    THEN LowerChars[CHOOSE i \in 1..Len(UpperChars) : UpperChars[i] = c]
    ELSE c

ToUpper(c) ==
    IF \E i \in 1..Len(LowerChars) : LowerChars[i] = c
    THEN UpperChars[CHOOSE i \in 1..Len(LowerChars) : LowerChars[i] = c]
    ELSE c

Lower(s) == [i \in 1..Len(s) |-> ToLower(s[i])]
Upper(s) == [i \in 1..Len(s) |-> ToUpper(s[i])]

RECURSIVE LStrip(_)
LStrip(s) == IF s # <<>> /\ Head(s) \in Whitespace THEN LStrip(Tail(s)) ELSE s

RECURSIVE RStrip(_)
RStrip(s) ==
    IF s # <<>> /\ s[Len(s)] \in Whitespace
    THEN RStrip(SubSeq(s, 1, Len(s) - 1))
    ELSE s

Strip(s) == RStrip(LStrip(s))

\* Python's `needle in hay` on strings.
Contains(hay, needle) ==
    \E i \in 0..(Len(hay) - Len(needle)) :
        \A j \in 1..Len(needle) : hay[i + j] = needle[j]

\* any(k in text for k in keywords)
ContainsAny(text, keywords) == \E k \in keywords : Contains(text, k)

(***************************************************************************)
(* The keyword lists of check_question_relevance and of the DRAFT          *)
(* re-validation, verbatim.                                                *)
(***************************************************************************)
\* Small-talk phrases; a query is screened by substring, not by word.
non_contract_phrases ==
    { <<"h","i">>, <<"h","e","l","l","o">>,
      <<"h","e","y">>, <<"h","o","w"," ","a","r","e"," ","y","o","u">>,
      <<"g","o","o","d"," ","m","o","r","n","i","n","g">>, <<"g","o","o","d"," ","a","f","t","e","r","n","o","o","n">>,
      <<"g","o","o","d"," ","e","v","e","n","i","n","g">>, <<"w","h","a","t","'","s"," ","u","p">>,
      <<"h","o","w","'","s"," ","i","t"," ","g","o","i","n","g">>, <<"n","i","c","e"," ","t","o"," ","m","e","e","t"," ","y","o","u">>,
      <<"w","e","a","t","h","e","r">>, <<"f","o","o","d">>,
      <<"m","u","s","i","c">>, <<"m","o","v","i","e">>,
      <<"s","p","o","r","t","s">>, <<"g","a","m","e">>,
      <<"f","u","n">>, <<"t","e","l","l"," ","m","e"," ","a","b","o","u","t"," ","y","o","u","r","s","e","l","f">>,
      <<"w","h","o"," ","a","r","e"," ","y","o","u">>, <<"w","h","a","t"," ","c","a","n"," ","y","o","u"," ","d","o">>,
      <<"j","o","k","e">>, <<"s","t","o","r","y">>,
      <<"r","e","c","i","p","e">>, <<"t","r","a","v","e","l">>,
      <<"v","a","c","a","t","i","o","n">>, <<"h","o","b","b","y">> }

\* The words that exempt a query from the small-talk rejection.
contract_indicators ==
    { <<"c","o","n","t","r","a","c","t">>, <<"a","g","r","e","e","m","e","n","t">>, <<"l","e","a","s","e">>,
      <<"l","a","n","d","l","o","r","d">>, <<"t","e","n","a","n","t">>, <<"p","a","r","t","y">>,
      <<"c","l","a","u","s","e">> }

\* The legal-domain keyword list: any of them as a substring accepts the query.
contract_keywords ==
    { <<"c","o","n","t","r","a","c","t">>, <<"a","g","r","e","e","m","e","n","t">>,
      <<"c","l","a","u","s","e">>, <<"t","e","r","m">>,
      <<"p","r","o","v","i","s","i","o","n">>, <<"p","a","r","t","y">>,
      <<"p","a","r","t","i","e","s">>, <<"o","b","l","i","g","a","t","i","o","n">>,
      <<"l","i","a","b","i","l","i","t","y">>, <<"b","r","e","a","c","h">>,
      <<"t","e","r","m","i","n","a","t","i","o","n">>, <<"r","e","n","e","w","a","l">>,
      <<"p","a","y","m","e","n","t">>, <<"c","o","n","s","i","d","e","r","a","t","i","o","n">>,
      <<"w","a","r","r","a","n","t","y">>, <<"g","u","a","r","a","n","t","e","e">>,
      <<"i","n","d","e","m","n","i","t","y">>, <<"c","o","n","f","i","d","e","n","t","i","a","l","i","t","y">>,
      <<"e","m","p","l","o","y","m","e","n","t">>, <<"s","e","r","v","i","c","e">>,
      <<"s","a","l","e">>, <<"p","u","r","c","h","a","s","e">>,
      <<"l","e","a","s","e">>, <<"r","e","n","t","a","l">>,
      <<"r","e","n","t">>, <<"p","r","i","c","e">>,
      <<"c","o","s","t">>, <<"f","e","e">>,
      <<"a","m","o","u","n","t">>, <<"d","e","p","o","s","i","t">>,
      <<"p","e","n","a","l","t","y">>, <<"d","a","m","a","g","e","s">>,
      <<"d","u","r","a","t","i","o","n">>, <<"p","e","r","i","o","d">>,
      <<"d","e","a","d","l","i","n","e">>, <<"d","a","t","e">>,
      <<"s","c","h","e","d","u","l","e">>, <<"t","i","m","e","l","i","n","e">>,
      <<"p","r","o","p","e","r","t","y">>, <<"p","r","e","m","i","s","e","s">>,
      <<"l","a","n","d","l","o","r","d">>, <<"t","e","n","a","n","t">>,
      <<"l","e","s","s","e","e">>, <<"l","e","s","s","o","r">>,
      <<"e","m","p","l","o","y","e","r">>, <<"e","m","p","l","o","y","e","e">>,
      <<"c","l","i","e","n","t">>, <<"c","o","n","t","r","a","c","t","o","r">>,
      <<"v","e","n","d","o","r">>, <<"s","u","p","p","l","i","e","r">>,
      <<"l","e","g","a","l">>, <<"l","a","w">>,
      <<"r","e","g","u","l","a","t","i","o","n">>, <<"c","o","m","p","l","i","a","n","c","e">>,
      <<"j","u","r","i","s","d","i","c","t","i","o","n">>, <<"g","o","v","e","r","n","i","n","g">>,
      <<"a","r","b","i","t","r","a","t","i","o","n">>, <<"m","e","d","i","a","t","i","o","n">>,
      <<"d","i","s","p","u","t","e">>, <<"r","e","s","o","l","u","t","i","o","n">>,
      <<"f","o","r","c","e"," ","m","a","j","e","u","r","e">>, <<"a","s","s","i","g","n","m","e","n","t">>,
      <<"s","u","b","c","o","n","t","r","a","c","t","i","n","g">>, <<"p","e","r","f","o","r","m","a","n","c","e">>,
      <<"d","e","l","i","v","e","r","y">>, <<"a","c","c","e","p","t","a","n","c","e">>,
      <<"i","n","t","e","l","l","e","c","t","u","a","l"," ","p","r","o","p","e","r","t","y">>, <<"c","o","p","y","r","i","g","h","t">>,
      <<"t","r","a","d","e","m","a","r","k">>, <<"p","a","t","e","n","t">>,
      <<"r","o","y","a","l","t","y">>, <<"s","c","o","p","e">>,
      <<"s","p","e","c","i","f","i","c","a","t","i","o","n">>, <<"r","e","q","u","i","r","e","m","e","n","t">>,
      <<"m","i","l","e","s","t","o","n","e">>, <<"d","e","l","i","v","e","r","a","b","l","e">> }

\* Modification verbs.
modification_keywords ==
    { <<"a","d","d">>, <<"r","e","m","o","v","e">>, <<"c","h","a","n","g","e">>,
      <<"m","o","d","i","f","y">>, <<"u","p","d","a","t","e">>, <<"e","d","i","t">>,
      <<"i","n","c","l","u","d","e">>, <<"i","n","s","e","r","t">>, <<"d","e","l","e","t","e">>,
      <<"r","e","p","l","a","c","e">> }

\* contract_context of the modification layer.
modification_contract_context ==
    { <<"c","o","n","t","r","a","c","t">>, <<"a","g","r","e","e","m","e","n","t">>,
      <<"l","e","a","s","e">>, <<"m","y"," ","c","o","n","t","r","a","c","t">>,
      <<"t","h","e"," ","c","o","n","t","r","a","c","t">>, <<"t","h","i","s"," ","c","o","n","t","r","a","c","t">> }

\* Question patterns about contract content.
contract_question_patterns ==
    { <<"w","h","a","t"," ","i","s"," ","t","h","e">>, <<"w","h","a","t"," ","a","r","e"," ","t","h","e">>,
      <<"h","o","w"," ","m","u","c","h">>, <<"w","h","e","n"," ","i","s">>,
      <<"w","h","e","n"," ","d","o","e","s">>, <<"w","h","e","r","e"," ","i","s">>,
      <<"w","h","o"," ","i","s">>, <<"w","h","i","c","h">>,
      <<"e","x","p","l","a","i","n">>, <<"c","l","a","r","i","f","y">>,
      <<"i","n","t","e","r","p","r","e","t">>, <<"i","n"," ","t","h","i","s"," ","a","g","r","e","e","m","e","n","t">>,
      <<"i","n"," ","t","h","i","s"," ","c","o","n","t","r","a","c","t">>, <<"i","n"," ","t","h","e"," ","c","o","n","t","r","a","c","t">>,
      <<"i","n"," ","t","h","e"," ","a","g","r","e","e","m","e","n","t">>, <<"a","c","c","o","r","d","i","n","g"," ","t","o">>,
      <<"b","a","s","e","d"," ","o","n">>, <<"u","n","d","e","r"," ","t","h","i","s">>,
      <<"t","e","r","m","s"," ","o","f">>, <<"c","o","n","d","i","t","i","o","n","s"," ","o","f">>,
      <<"m","y"," ","c","o","n","t","r","a","c","t">>, <<"t","h","e"," ","c","o","n","t","r","a","c","t">>,
      <<"t","h","i","s"," ","c","o","n","t","r","a","c","t">> }

\* Analysis verbs.
analysis_keywords ==
    { <<"a","n","a","l","y","z","e">>, <<"r","e","v","i","e","w">>, <<"s","u","m","m","a","r","y">>,
      <<"r","i","s","k","s">>, <<"a","n","a","l","y","s","i","s">>, <<"b","r","e","a","k","d","o","w","n">>,
      <<"e","x","a","m","i","n","e">> }

\* contract_context of the analysis layer.
analysis_contract_context ==
    { <<"c","o","n","t","r","a","c","t">>, <<"a","g","r","e","e","m","e","n","t">>, <<"l","e","a","s","e">>,
      <<"t","h","i","s">>, <<"m","y">> }

\* The coarse re-check words used when the relevance LLM call fails.
contract_mentions ==
    { <<"a","g","r","e","e","m","e","n","t">>, <<"c","o","n","t","r","a","c","t">>, <<"l","e","a","s","e">>,
      <<"l","a","n","d","l","o","r","d">>, <<"t","e","n","a","n","t">>, <<"p","a","r","t","y">> }

\* The drafting keywords a DRAFT classification is re-validated against.
drafting_keywords ==
    { <<"d","r","a","f","t">>, <<"c","r","e","a","t","e">>, <<"m","a","k","e">>,
      <<"w","r","i","t","e">>, <<"g","e","n","e","r","a","t","e">>, <<"c","o","n","t","r","a","c","t">>,
      <<"a","g","r","e","e","m","e","n","t">> }

RELEVANT == <<"R","E","L","E","V","A","N","T">>
IRRELEVANT == <<"I","R","R","E","L","E","V","A","N","T">>

(***************************************************************************)
(* get_gemini_response: the result of one LLM call, success with the       *)
(* response text or failure with the upstream error text.                  *)
(***************************************************************************)
LlmOk(text) == [success |-> TRUE, response |-> text]
LlmFail(e) == [success |-> FALSE, error |-> e]
UpstreamErrors == {"quota exceeded", "timeout"}

\* The placeholder where no LLM call was made.
NoCall == LlmFail("")

(***************************************************************************)
(* check_question_relevance, layer by layer.  llm is the outcome the LLM   *)
(* call has if it is made; the result records which layer decided and      *)
(* whether the call was made.                                              *)
(***************************************************************************)
QuestionLower(question) == Strip(Lower(question))

\* the quick rejection of the first layer
SmallTalkReject(question_lower) ==
    /\ ContainsAny(question_lower, non_contract_phrases)
    /\ ~ ContainsAny(question_lower, contract_indicators)

KeywordAccept(question_lower) == ContainsAny(question_lower, contract_keywords)

ModificationAccept(question_lower) ==
    /\ ContainsAny(question_lower, modification_keywords)
    /\ ContainsAny(question_lower, modification_contract_context)

PatternAccept(question_lower) ==
    ContainsAny(question_lower, contract_question_patterns)

AnalysisAccept(question_lower) ==
    /\ ContainsAny(question_lower, analysis_keywords)
    /\ ContainsAny(question_lower, analysis_contract_context)

\* return "RELEVANT" in response   (response stripped and upper-cased)
LlmSaysRelevant(response) == Contains(Upper(Strip(response)), RELEVANT)

\* the fallback re-checking words that no earlier layer looks for
MentionsFallbackOtherWords(question_lower) ==
    ContainsAny(question_lower,
                { <<"a","d","d">>, <<"m","o","d","i","f","y">>,
                  <<"c","h","a","n","g","e">> })

\* the fallback when the LLM call failed
MentionsFallback(question_lower) == ContainsAny(question_lower, contract_mentions)

Decided(result, stage, called) ==
    [result |-> result, stage |-> stage, llm_called |-> called]

\* the cascade with the LLM asked before the heuristic layers
check_question_relevance_llm_first(question, llm) ==
    LET question_lower == QuestionLower(question) IN
    IF llm.success THEN Decided(LlmSaysRelevant(llm.response), "llm", TRUE)
    ELSE IF SmallTalkReject(question_lower) THEN Decided(FALSE, "smalltalk", FALSE)
    ELSE Decided(KeywordAccept(question_lower), "keyword", FALSE)

check_question_relevance(question, llm) ==
    LET question_lower == QuestionLower(question) IN
    IF SmallTalkReject(question_lower) THEN Decided(FALSE, "smalltalk", FALSE)
    ELSE IF KeywordAccept(question_lower) THEN Decided(TRUE, "keyword", FALSE)
    ELSE IF ModificationAccept(question_lower)
         THEN Decided(TRUE, "modification", FALSE)
    ELSE IF PatternAccept(question_lower) THEN Decided(TRUE, "pattern", FALSE)
    ELSE IF AnalysisAccept(question_lower) THEN Decided(TRUE, "analysis", FALSE)
    ELSE IF llm.success
         THEN Decided(LlmSaysRelevant(llm.response), "llm", TRUE)
    ELSE Decided(MentionsFallback(question_lower), "llm_failed", TRUE)

(***************************************************************************)
(* Generated text: (id, len).  text[:k] keeps the identity and cuts the    *)
(* length.                                                                 *)
(***************************************************************************)
PromptBudget == 20000

Text(id, len) == [id |-> id, len |-> len]
NoText == Text(0, 0)

Min(a, b) == IF a < b THEN a ELSE b

\* contract_text[:k]
Prefix(text, k) == Text(text.id, Min(text.len, k))

\* trimmed_text = contract_text[:20000]
TrimmedText(contract_text) == Prefix(contract_text, PromptBudget)

\* current_contract = active_contract["contract_text"], embedded as it is
CurrentContract(contract_text) == contract_text

\* What the LLM may return as a contract, an answer or an analysis.
LlmTexts == {Text(1, 40), Text(2, 20000), Text(3, 20001)}

(***************************************************************************)
(* The session store.  The four store helpers that the endpoint calls are  *)
(* not defined in contract_draft.py; they are modelled from the store's    *)
(* contract in the specification (section 4.3).  Session and contract ids  *)
(* are uuids in the program; here a fresh id is the next unused number.    *)
(***************************************************************************)
None == 0
UnknownId == -1

NewSession == [contracts |-> <<>>, active_contract_id |-> None]

FreshSessionId(sessions) == Cardinality(DOMAIN sessions) + 1

\* create_session(requested_id) -> session_id
create_or_get_session(sessions, requested) ==
    IF requested # None /\ requested \in DOMAIN sessions
    THEN [session_id |-> requested, sessions |-> sessions]
    ELSE [session_id |-> FreshSessionId(sessions),
          sessions |-> sessions @@ (FreshSessionId(sessions) :> NewSession)]

NewContract(contract_text, contract_type, query) ==
    [contract_text |-> contract_text, contract_type |-> contract_type,
     query |-> query, modification_history |-> <<>>]

\* Python's None where a Document is expected.
NoContract == NewContract(NoText, <<>>, <<>>)

\* get_active(session_id) -> Document | None
get_active_contract(sessions, session_id) ==
    IF /\ session_id \in DOMAIN sessions
       /\ sessions[session_id].active_contract_id
              \in DOMAIN sessions[session_id].contracts
    THEN sessions[session_id].contracts[sessions[session_id].active_contract_id]
    ELSE NoContract

\* add_document(session_id, content, type_label, source_query) -> document_id
add_contract_to_session(sessions, session_id, contract_id, contract_text, contract_type, query) ==
    [sessions EXCEPT ![session_id] =
        [contracts |-> @.contracts @@
             (contract_id :> NewContract(contract_text, contract_type, query)),
         active_contract_id |-> contract_id]]

RECURSIVE SummaryOf(_, _)
SummaryOf(contracts, ids) ==
    IF ids = {} THEN <<>>
    ELSE LET first == CHOOSE i \in ids : \A j \in ids : i <= j IN
         <<[contract_id |-> first,
            contract_type |-> contracts[first].contract_type]>>
             \o SummaryOf(contracts, ids \ {first})

\* list_summaries(session_id), in the order of creation
get_contracts_summary(sessions, session_id) ==
    SummaryOf(sessions[session_id].contracts,
              DOMAIN sessions[session_id].contracts)

\* GET /health: the session and contract counts it reports
RECURSIVE TotalContracts(_, _)
TotalContracts(sessions, ids) ==
    IF ids = {} THEN 0
    ELSE LET s == CHOOSE i \in ids : TRUE IN
         Cardinality(DOMAIN sessions[s].contracts)
             + TotalContracts(sessions, ids \ {s})

health_check(sessions) ==
    [active_sessions |-> Cardinality(DOMAIN sessions),
     total_contracts |-> TotalContracts(sessions, DOMAIN sessions)]

(***************************************************************************)
(* The MODIFY write: the active pointer is read from the store when the    *)
(* LLM call has returned, the text is replaced and one record appended.    *)
(***************************************************************************)
ModificationRecord(query, timestamp) ==
    [request |-> query, timestamp |-> timestamp]

\* Mutant: the text is replaced but no modification record is appended.
ApplyModificationNoHistory(sessions, session_id, response, query, timestamp) ==
    LET active_contract_id == sessions[session_id].active_contract_id IN
    [sessions EXCEPT ![session_id].contracts[active_contract_id].contract_text =
        response]

\* the write aimed at the session's oldest document, not at the active one
ApplyModificationOldest(sessions, session_id, response, query, timestamp) ==
    LET ids == DOMAIN sessions[session_id].contracts
        oldest == CHOOSE c \in ids : \A d \in ids : c <= d
    IN  [sessions EXCEPT ![session_id].contracts[oldest] =
            [@ EXCEPT !.contract_text = response,
                      !.modification_history =
                          Append(@, ModificationRecord(query, timestamp))]]

\* the write aimed at the first session that has an active document
ApplyModificationAnySession(sessions, session_id, response, query, timestamp) ==
    LET active == {s \in DOMAIN sessions : sessions[s].active_contract_id # None}
        first == CHOOSE s \in active : \A t \in active : s <= t
        active_contract_id == sessions[first].active_contract_id
    IN  [sessions EXCEPT ![first].contracts[active_contract_id] =
            [@ EXCEPT !.contract_text = response,
                      !.modification_history =
                          Append(@, ModificationRecord(query, timestamp))]]

\* the record appended, the text left as it was
ApplyModificationKeepsText(sessions, session_id, response, query, timestamp) ==
    LET active_contract_id == sessions[session_id].active_contract_id IN
    [sessions EXCEPT ![session_id].contracts[active_contract_id]
                         .modification_history =
        Append(@, ModificationRecord(query, timestamp))]

ApplyModification(sessions, session_id, response, query, timestamp) ==
    LET active_contract_id == sessions[session_id].active_contract_id IN
    [sessions EXCEPT ![session_id].contracts[active_contract_id] =
        [@ EXCEPT !.contract_text = response,
                  !.modification_history =
                      Append(@, ModificationRecord(query, timestamp))]]

(***************************************************************************)
(* Intent names and messages.                                              *)
(***************************************************************************)
DRAFT == <<"D","R","A","F","T">>
QUESTION == <<"Q","U","E","S","T","I","O","N">>
MODIFY == <<"M","O","D","I","F","Y">>
ANALYZE == <<"A","N","A","L","Y","Z","E">>
INVALID == <<"I","N","V","A","L","I","D">>
NoIntent == <<>>

\* Mutant: the answer is upper-cased but not trimmed.
DetectedIntentNoStrip(response) == Upper(response)

\* detected_intent = intent_result["response"].strip().upper()
DetectedIntent(response) == Upper(Strip(response))

\* the re-validation of a DRAFT classification left out
HasDraftingKeywordAlways(query) == TRUE

\* any(keyword.lower() in request.query.lower() for keyword in drafting_keywords)
HasDraftingKeyword(query) ==
    \E keyword \in drafting_keywords : Contains(Lower(query), Lower(keyword))

DefaultContractType == <<"C","o","n","t","r","a","c","t">>

\* contract_type = "Contract" if not type_result["success"] else response.strip()
ContractTypeOf(type_result) ==
    IF ~ type_result.success THEN DefaultContractType
    ELSE Strip(type_result.response)

ErrQueryRequired == "Query is required"
ErrIrrelevant == "I am a specialized contract drafting tool. ..."
ErrIntent == "Error understanding your request. Please try again."
ErrInvalid == "I couldn't understand your request. ..."
ErrDraftKeyword == "Please ask me to draft or create a specific type of contract."
ErrGenerating == "Error generating contract: "
ErrNoActive == "No active contract found in this session. Please draft a contract first."
ErrQuestion == "Error processing question: "
ErrModifying == "Error modifying contract: "
ErrAnalyzing == "Error analyzing contract: "
ErrUnexpected == "Unexpected error: "
ErrUnknownIntent == "I couldn't understand what you want to do. ..."

(***************************************************************************)
(* Requests, prompts and responses.                                        *)
(***************************************************************************)
NoPrompt == [template |-> "none", contract_text |-> NoText, question |-> <<>>]

Prompt(template, contract_text, question) ==
    [template |-> template, contract_text |-> contract_text,
     question |-> question]

\* UnifiedContractResponse with every optional field absent
BaseResponse(query) ==
    [success |-> FALSE, query |-> query, session_id |-> None,
     contract_text |-> NoText, contract_type |-> <<>>, answer |-> NoText,
     contract_analysis |-> NoText, modification_history |-> <<>>,
     detected_intent |-> NoIntent, error |-> "", upstream |-> "",
     is_new_session |-> FALSE, contracts_in_session |-> <<>>]

IdleRequest ==
    [pc |-> "idle", query |-> <<>>, requested |-> None, session_id |-> None,
     is_relevant |-> FALSE,
     is_new_session |-> FALSE, has_active_contract |-> FALSE,
     detected_intent |-> NoIntent, contract_type |-> <<>>,
     prompt |-> NoPrompt, embedded |-> None, read_at |-> 0,
     calls |-> <<>>, wrote |-> None,
     intent_answer |-> <<>>, result |-> LlmFail(""),
     response |-> BaseResponse(<<>>), pre |-> <<>>]

\* Handlers in flight at once: the endpoint is an await-free async function
\* on the server's one event loop, so a handler runs to its return.
NumSlots == 1
Slots == 1..NumSlots

\* The queries a client sends.
Queries ==
    { <<>>,
      <<"h","i">>,
      <<"d","r","a","f","t"," ","n","d","a">>,
      <<"a","d","d"," ","f","e","e">> }

\* The session ids a client sends: none, a live one, or one that is not live.
RequestedIds(sessions) == {None, UnknownId} \cup DOMAIN sessions

RelevanceAnswers ==
    { RELEVANT, IRRELEVANT,
      <<" ","r","e","l","e","v","a","n","t","\n">>,
      <<"N","O">> }

IntentAnswers ==
    { DRAFT, QUESTION, MODIFY, ANALYZE, INVALID,
      <<" ","d","r","a","f","t","\n">>,
      <<"D","R","A","F","T",".">> }

TypeAnswers == { <<" ","N","D","A","\n">> }

Outcomes(answers) ==
    {LlmOk(a) : a \in answers} \cup {LlmFail(e) : e \in UpstreamErrors}

(***************************************************************************)
(* app.py: the case-analysis service.                                      *)
(*                                                                         *)
(* case_sessions maps a session id to the text of an uploaded case.  The   *)
(* handlers are coroutines without an await: each runs to its end before   *)
(* the server takes up the next request, and the call to the LLM is the    *)
(* one place where a handler is shown in mid-flight.                       *)
(***************************************************************************)
MaxCaseRequests == 3

\* uuid4 never repeats: the n-th id minted is n.  UnknownCaseId is an id
\* that no upload was ever given.
UnknownCaseId == 99

\* file.filename of an upload: none, and names with and without a supported
\* extension.
CaseFilenames ==
    { <<>>,
      <<"a",".","P","D","F">>,
      <<"b",".","t","x","t">>,
      <<"c",".","d","o","c">>,
      <<"t","x","t">> }

\* What the uploaded file holds: text the extractor can read (short, empty,
\* longer than the prompt takes), or bytes it cannot.
FileContents ==
    { [readable |-> TRUE, text |-> Text(1, 40)],
      [readable |-> TRUE, text |-> Text(2, 0)],
      [readable |-> TRUE, text |-> Text(3, 20001)],
      [readable |-> FALSE, text |-> Text(0, 0)] }

SummaryAnswers == { Text(7, 300) }
QaAnswers == { Text(8, 120) }

\* s.endswith(suffix)
EndsWith(s, suffix) ==
    /\ Len(s) >= Len(suffix)
    /\ SubSeq(s, Len(s) - Len(suffix) + 1, Len(s)) = suffix

\* The index of the last "." of s, 0 if there is none.
LastDot(s) ==
    IF \E i \in 1..Len(s) : s[i] = "."
    THEN CHOOSE i \in 1..Len(s) : s[i] = "." /\ \A j \in (i+1)..Len(s) : s[j] # "."
    ELSE 0

\* file.filename.split('.')[-1].lower()
FileExtension(filename) == Lower(SubSeq(filename, LastDot(filename) + 1, Len(filename)))

SupportedExtensions == { <<"p","d","f">>, <<"t","x","t">> }

\* UPLOAD_FOLDER / f"{session_id}_{file.filename}": the id holds no ".".
FilePath(filename) == <<"u","_">> \o filename

\* extract_text_from_file: the text, or ValueError for a path that ends in
\* neither extension and for a file the reader fails on.
extract_text_from_file(file_path, content) ==
    IF /\ \/ EndsWith(Lower(file_path), <<".","p","d","f">>)
          \/ EndsWith(Lower(file_path), <<".","t","x","t">>)
       /\ content.readable
    THEN [raised |-> FALSE, text |-> content.text]
    ELSE [raised |-> TRUE, text |-> Text(0, 0)]

ErrNoFilename == "No filename provided"
ErrUnsupported == "Only PDF and TXT files are supported"
ErrProcessingFile == "Error processing file: "
ErrSessionNotFound == "Session not found"
ErrAskSessionNotFound == "Session not found. Please upload a case file first using /api/upload-case"

\* A response of the service: the status code, the detail of an
\* HTTPException, and the body's session_id and text where it has them.
CaseResponse(status, detail, session_id, text) ==
    [status |-> status, detail |-> detail, session_id |-> session_id, text |-> text]

CaseIdle ==
    [ pc |-> "idle", kind |-> "none", session_id |-> None, filename |-> <<>>,
      pre |-> <<>>, llm_calls |-> 0, prompt |-> NoText,
      response |-> CaseResponse(0, "", None, NoText) ]

CaseInit ==
    /\ case_sessions = <<>>
    /\ case_req = CaseIdle
    /\ case_log = [minted |-> 0, deleted |-> {}, received |-> 0]

\* The session ids a client sends: a live one, one that was deleted, one
\* that never was.
CaseRequestedIds == DOMAIN case_sessions \cup case_log.deleted \cup {UnknownCaseId}

\* case_sessions[session_id] = {...}
Register(sessions, session_id, entry) ==
    [k \in DOMAIN sessions \cup {session_id} |->
        IF k = session_id THEN entry ELSE sessions[k]]

\* A delete that empties the store.
DeleteAll(sessions, session_id) == <<>>

\* del case_sessions[session_id]
Delete(sessions, session_id) ==
    [k \in DOMAIN sessions \ {session_id} |-> sessions[k]]

\* A failed upload that leaves its entry behind.
CleanUpNever(sessions, session_id) == sessions

\* if session_id in case_sessions: del case_sessions[session_id]
CleanUp(sessions, session_id) ==
    IF session_id \in DOMAIN sessions THEN Delete(sessions, session_id) ELSE sessions

\* The server takes up a request of the given kind.
CaseAccept(kind, session_id, filename) ==
    [CaseIdle EXCEPT !.kind = kind, !.session_id = session_id,
                     !.filename = filename, !.pre = case_sessions]

CaseFree ==
    /\ case_req.pc \in {"idle", "done"}
    /\ case_log.received < MaxCaseRequests

CaseReceived == [case_log EXCEPT !.received = @ + 1]

\* upload_and_analyze_case, up to the call of the LLM.
UploadReceive ==
    /\ CaseFree
    /\ \E filename \in CaseFilenames, saved \in BOOLEAN, content \in FileContents :
        LET session_id == case_log.minted + 1
            me == CaseAccept("upload", None, filename)
            minted == [CaseReceived EXCEPT !.minted = session_id]
            case_text == extract_text_from_file(FilePath(filename), content)
            entry == [case_text |-> case_text.text, filename |-> filename,
                      upload_time |-> case_log.received]
        IN  IF filename = <<>>
            THEN /\ case_req' = [me EXCEPT !.pc = "done", !.response =
                                    CaseResponse(400, ErrNoFilename, None, NoText)]
                 /\ case_log' = CaseReceived
                 /\ UNCHANGED case_sessions
            ELSE IF FileExtension(filename) \notin SupportedExtensions
            THEN /\ case_req' = [me EXCEPT !.pc = "done", !.response =
                                    CaseResponse(400, ErrUnsupported, None, NoText)]
                 /\ case_log' = CaseReceived
                 /\ UNCHANGED case_sessions
            ELSE IF ~ saved \/ case_text.raised
            THEN /\ case_sessions' = CleanUp(case_sessions, session_id)
                 /\ case_req' = [me EXCEPT !.pc = "done", !.session_id = session_id,
                                    !.response =
                                    CaseResponse(500, ErrProcessingFile, None, NoText)]
                 /\ case_log' = minted
            ELSE /\ case_sessions' = Register(case_sessions, session_id, entry)
                 /\ case_req' = [me EXCEPT !.pc = "summary", !.session_id = session_id,
                                    !.prompt = Prefix(case_text.text, PromptBudget)]
                 /\ case_log' = minted
    /\ UNCHANGED <<contract_sessions, next_contract, req, handled, clock, draft_log, rel>>

\* upload_and_analyze_case, from the answer of the LLM on.
UploadSummary ==
    /\ case_req.pc = "summary"
    /\ \E result \in Outcomes(SummaryAnswers) :
        IF result.success
        THEN /\ case_req' = [case_req EXCEPT !.pc = "done", !.llm_calls = @ + 1,
                                !.response = CaseResponse(200, "", case_req.session_id,
                                                          result.response)]
             /\ UNCHANGED case_sessions
        ELSE /\ case_sessions' = CleanUp(case_sessions, case_req.session_id)
             /\ case_req' = [case_req EXCEPT !.pc = "done", !.llm_calls = @ + 1,
                                !.response = CaseResponse(500, result.error, None, NoText)]
    /\ UNCHANGED <<contract_sessions, next_contract, req, handled, clock, draft_log, rel, case_log>>

\* ask_question_about_case, up to the call of the LLM.
AskReceive ==
    /\ CaseFree
    /\ \E session_id \in CaseRequestedIds :
        LET me == CaseAccept("ask", session_id, <<>>) IN
        IF session_id \notin DOMAIN case_sessions
        THEN case_req' = [me EXCEPT !.pc = "done", !.response =
                             CaseResponse(404, ErrAskSessionNotFound, None, NoText)]
        ELSE case_req' = [me EXCEPT !.pc = "answer", !.prompt =
                             Prefix(case_sessions[session_id].case_text, PromptBudget)]
    /\ case_log' = CaseReceived
    /\ UNCHANGED <<contract_sessions, next_contract, req, handled, clock, draft_log, rel, case_sessions>>

\* ask_question_about_case, from the answer of the LLM on.
AskAnswer ==
    /\ case_req.pc = "answer"
    /\ \E result \in Outcomes(QaAnswers) :
        case_req' = [case_req EXCEPT !.pc = "done", !.llm_calls = @ + 1, !.response =
                        IF result.success
                        THEN CaseResponse(200, "", None, result.response)
                        ELSE CaseResponse(500, result.error, None, NoText)]
    /\ UNCHANGED <<contract_sessions, next_contract, req, handled, clock, draft_log, rel, case_sessions, case_log>>

get_session_info ==
    /\ CaseFree
    /\ \E session_id \in CaseRequestedIds :
        LET me == CaseAccept("get", session_id, <<>>) IN
        IF session_id \notin DOMAIN case_sessions
        THEN case_req' = [me EXCEPT !.pc = "done", !.response =
                             CaseResponse(404, ErrSessionNotFound, None, NoText)]
        ELSE case_req' = [me EXCEPT !.pc = "done", !.filename =
                             case_sessions[session_id].filename, !.response =
                             CaseResponse(200, "", session_id, NoText)]
    /\ case_log' = CaseReceived
    /\ UNCHANGED <<contract_sessions, next_contract, req, handled, clock, draft_log, rel, case_sessions>>

delete_session ==
    /\ CaseFree
    /\ \E session_id \in CaseRequestedIds :
        LET me == CaseAccept("delete", session_id, <<>>) IN
        IF session_id \notin DOMAIN case_sessions
        THEN /\ case_req' = [me EXCEPT !.pc = "done", !.response =
                                CaseResponse(404, ErrSessionNotFound, None, NoText)]
             /\ case_log' = CaseReceived
             /\ UNCHANGED case_sessions
        ELSE /\ case_sessions' = Delete(case_sessions, session_id)
             /\ case_req' = [me EXCEPT !.pc = "done", !.response =
                                CaseResponse(200, "", session_id, NoText)]
             /\ case_log' = [CaseReceived EXCEPT !.deleted = @ \cup {session_id}]
    /\ UNCHANGED <<contract_sessions, next_contract, req, handled, clock, draft_log, rel>>

NextCase ==
    \/ UploadReceive
    \/ UploadSummary
    \/ AskReceive
    \/ AskAnswer
    \/ get_session_info
    \/ delete_session

(***************************************************************************)
(* The state after start-up.                                               *)
(***************************************************************************)
RelIdle == [pc |-> "off", question |-> <<>>, out |-> Decided(FALSE, "none", FALSE),
            llm |-> LlmFail("")]

Init ==
    /\ contract_sessions = <<>>
    /\ next_contract = 0
    /\ req = [r \in Slots |-> IdleRequest]
    /\ handled = 0
    /\ clock = 0
    /\ draft_log = <<>>
    /\ rel = RelIdle
    /\ CaseInit

\* The handler of slot r returns its response; the slot shows it until the
\* server takes up the next request.
Respond(r, fields) ==
    req' = [req EXCEPT ![r] = [fields EXCEPT !.pc = "done"]]

\* The responses of earlier requests have been sent when a request is taken up.
Delivered(requests) ==
    [o \in DOMAIN requests |-> IF requests[o].pc \in {"done", "crashed"}
                     THEN IdleRequest ELSE requests[o]]

RespondAtOnce(r, fields) ==
    req' = [Delivered(req) EXCEPT ![r] = [fields EXCEPT !.pc = "done"]]

(***************************************************************************)
(* POST /api/contract.  The handler runs from one LLM call to the next in  *)
(* one step; the endpoint is an async function that never awaits, so the   *)
(* server handles one request at a time.                                   *)
(***************************************************************************)
\* The queries of clients that race on one session.
RaceQueries ==
    { <<"m","a","k","e"," ","c","o","n","t","r","a","c","t">>,
      <<"a","d","d"," ","f","e","e">> }

\* is_relevant = check_question_relevance(request.query), for each query a
\* client sends and each outcome of the relevance LLM call.
IsRelevant ==
    [query \in Queries \cup RaceQueries |->
        [llm \in Outcomes(RelevanceAnswers) \cup {NoCall} |->
            check_question_relevance(query, llm)]]

\* The outcomes the relevance LLM call of a query can have: the call is made
\* only when the keyword layers leave the query undecided.
RelevanceOutcomes(query) ==
    IF IsRelevant[query][NoCall].llm_called
    THEN Outcomes(RelevanceAnswers)
    ELSE {NoCall}

NoOtherInFlight(r) ==
    \A o \in Slots \ {r} : req[o].pc \in {"idle", "done", "crashed"}

\* is_new_session = request.session_id is None or request.session_id not in contract_sessions
IsNewSession(requested, sessions) ==
    requested = None \/ requested \notin DOMAIN sessions

\* The session a request is handled on, and the store with it: the session
\* is resolved only after the query has passed the relevance filter.
Resolved(session_id, sessions) == [session_id |-> session_id, sessions |-> sessions]

\* session resolution taken before the relevance verdict is looked at
ResolveSessionEarly(sessions, requested, is_relevant) ==
    create_or_get_session(sessions, requested)

\* session resolution that never reuses the requested session
ResolveSessionAlwaysNew(sessions, requested, is_relevant) ==
    IF is_relevant THEN create_or_get_session(sessions, None)
    ELSE Resolved(None, sessions)

ResolveSession(sessions, requested, is_relevant) ==
    IF is_relevant THEN create_or_get_session(sessions, requested)
    ELSE Resolved(None, sessions)

\* The handler up to the intent-classification call: validation, the
\* relevance filter, session resolution.
Accept(r, query, requested) ==
    /\ req[r].pc \in {"idle", "done", "crashed"}
    /\ handled' = handled + 1
    /\ \E llm \in RelevanceOutcomes(query) :
        LET base == [IdleRequest EXCEPT !.query = query,
                                        !.requested = requested,
                                        !.pre = contract_sessions]
            rv == IsRelevant[query][llm]
            checked == [base EXCEPT !.is_relevant = rv.result, !.calls =
                            IF rv.llm_called THEN <<"relevance">> ELSE <<>>]
            cs == ResolveSession(contract_sessions, requested, rv.result)
        IN  IF query = <<>>
            THEN /\ RespondAtOnce(r, [base EXCEPT !.response =
                         [BaseResponse(<<>>) EXCEPT !.error = ErrQueryRequired]])
                 /\ UNCHANGED contract_sessions
            ELSE IF ~ rv.result
            THEN /\ RespondAtOnce(r, [checked EXCEPT !.response =
                         [BaseResponse(query) EXCEPT !.error = ErrIrrelevant]])
                 /\ contract_sessions' = cs.sessions
            ELSE /\ contract_sessions' = cs.sessions
                 /\ req' = [Delivered(req) EXCEPT ![r] =
                        [checked EXCEPT
                            !.pc = "intent",
                            !.session_id = cs.session_id,
                            !.is_new_session =
                                IsNewSession(requested, cs.sessions),
                            !.has_active_contract =
                                get_active_contract(cs.sessions, cs.session_id)
                                    # NoContract,
                            !.prompt = Prompt("intent", NoText, query)]]
    /\ UNCHANGED <<next_contract, clock, draft_log, rel, case_vars>>

(***************************************************************************)
(* The handler when a store helper raises.  The helpers are called inside  *)
(* the try block: create_or_get_session on line 636 and                    *)
(* get_active_contract on line 640.  The except block calls                *)
(* create_or_get_session once more, outside any try block.                 *)
(***************************************************************************)
Exceptions == {"KeyError"}

RaisePoints == {"create_or_get_session", "get_active_contract"}

\* The except block, reached with the store as the try block left it.  The
\* session lookup made here may raise only if it raised in the try block.
Except(r, me, sessions, e, lookup_raised) ==
    \E raises_again \in IF lookup_raised THEN BOOLEAN ELSE {FALSE} :
        IF raises_again
        THEN /\ contract_sessions' = sessions
             /\ req' = [Delivered(req) EXCEPT ![r] = [me EXCEPT !.pc = "crashed"]]
        ELSE LET cs == create_or_get_session(sessions, me.requested) IN
             /\ contract_sessions' = cs.sessions
             /\ RespondAtOnce(r, [me EXCEPT !.response =
                    [BaseResponse(me.query) EXCEPT
                        !.session_id = cs.session_id,
                        !.error = ErrUnexpected,
                        !.upstream = e]])

\* A request that passes the relevance filter and for which one of the two
\* helper calls before the intent call raises.
ReceiveRaising(r) ==
    /\ req[r].pc \in {"idle", "done", "crashed"}
    /\ handled < MaxRequests
    /\ NoOtherInFlight(r)
    /\ handled' = handled + 1
    /\ \E query \in Queries \ {<<>>}, requested \in RequestedIds(contract_sessions) :
       \E llm \in RelevanceOutcomes(query), e \in Exceptions, at \in RaisePoints :
        LET rv == IsRelevant[query][llm]
            checked == [IdleRequest EXCEPT
                            !.query = query, !.requested = requested,
                            !.pre = contract_sessions,
                            !.is_relevant = rv.result,
                            !.calls = IF rv.llm_called THEN <<"relevance">> ELSE <<>>]
            cs == ResolveSession(contract_sessions, requested, rv.result)
        IN  /\ rv.result
            /\ IF at = "create_or_get_session"
               THEN Except(r, checked, contract_sessions, e, TRUE)
               ELSE Except(r, [checked EXCEPT
                                  !.session_id = cs.session_id,
                                  !.is_new_session =
                                      IsNewSession(requested, cs.sessions)],
                           cs.sessions, e, FALSE)
    /\ UNCHANGED <<next_contract, clock, draft_log, rel, case_vars>>

\* The server takes up a request when no other handler is running.
Receive(r) ==
    /\ NoOtherInFlight(r)
    /\ handled < MaxRequests
    /\ \E query \in Queries, requested \in RequestedIds(contract_sessions) :
        Accept(r, query, requested)

QuestionPrompt(active_contract, query) ==
    Prompt("qa", TrimmedText(active_contract.contract_text), query)

ModifyPrompt(active_contract, query) ==
    Prompt("modification", CurrentContract(active_contract.contract_text), query)

AnalyzePrompt(active_contract) ==
    Prompt("analysis", TrimmedText(active_contract.contract_text), <<>>)

\* The failure responses of the dispatcher, all carrying the session id.
\* a failure response that leaves the session_id out
FailureNoSession(me, detected_intent, error, upstream) ==
    [me EXCEPT !.detected_intent = detected_intent,
               !.response = [BaseResponse(me.query) EXCEPT
                                !.detected_intent = detected_intent,
                                !.error = error,
                                !.upstream = upstream]]

Failure(me, detected_intent, error, upstream) ==
    [me EXCEPT !.detected_intent = detected_intent,
               !.response = [BaseResponse(me.query) EXCEPT
                                !.session_id = me.session_id,
                                !.detected_intent = detected_intent,
                                !.error = error,
                                !.upstream = upstream]]

\* Mutant: the QUESTION and MODIFY branches are exchanged.
HandlerSwapped(detected_intent) ==
    IF detected_intent = QUESTION THEN "modify"
    ELSE IF detected_intent = MODIFY THEN "question"
    ELSE IF detected_intent = ANALYZE THEN "analyze"
    ELSE "unknown"

\* The branch of the if / elif chain that handles an intent.
Handler(detected_intent) ==
    IF detected_intent = QUESTION THEN "question"
    ELSE IF detected_intent = MODIFY THEN "modify"
    ELSE IF detected_intent = ANALYZE THEN "analyze"
    ELSE "unknown"

\* DRAFT matched as a substring of the answer, not by equality
IsDraftContained(detected_intent) == Contains(detected_intent, DRAFT)

\* if detected_intent == "DRAFT"
IsDraft(detected_intent) == detected_intent = DRAFT

\* the INVALID classification not treated as terminal
IsInvalidNever(detected_intent) == FALSE

\* if detected_intent == "INVALID"
IsInvalid(detected_intent) == detected_intent = INVALID

\* Mutant: the check for a missing active contract is left out.
NoActiveContractNever(active_contract) == FALSE

\* if not active_contract
NoActiveContract(active_contract) == active_contract = NoContract

\* From the return of the intent call to the next LLM call or the response.
Intent(r) ==
    /\ req[r].pc = "intent"
    /\ \E intent_result \in Outcomes(IntentAnswers) :
        LET me == [req[r] EXCEPT !.calls = Append(@, "intent"),
                                 !.result = intent_result,
                                 !.intent_answer =
                                     IF intent_result.success
                                     THEN intent_result.response ELSE <<>>]
            detected_intent == DetectedIntent(intent_result.response)
            active_contract ==
                get_active_contract(contract_sessions, me.session_id)
            Next_(pc, prompt) ==
                req' = [req EXCEPT ![r] =
                    [me EXCEPT !.pc = pc, !.prompt = prompt,
                               !.embedded =
                                   IF prompt.contract_text = NoText THEN None
                                   ELSE contract_sessions[me.session_id]
                                            .active_contract_id,
                               !.read_at = clock,
                               !.detected_intent = detected_intent]]
        IN  IF ~ intent_result.success
            THEN Respond(r, Failure(me, NoIntent, ErrIntent, ""))
            ELSE IF IsInvalid(detected_intent)
            THEN Respond(r, Failure(me, INVALID, ErrInvalid, ""))
            ELSE IF IsDraft(detected_intent)
            THEN IF ~ HasDraftingKeyword(me.query)
                 THEN Respond(r, Failure(me, DRAFT, ErrDraftKeyword, ""))
                 ELSE Next_("type", Prompt("type", NoText, me.query))
            ELSE IF NoActiveContract(active_contract)
            THEN Respond(r, Failure(me, detected_intent, ErrNoActive, ""))
            ELSE IF Handler(detected_intent) = "question"
            THEN Next_("question", QuestionPrompt(active_contract, me.query))
            ELSE IF Handler(detected_intent) = "modify"
            THEN Next_("modify", ModifyPrompt(active_contract, me.query))
            ELSE IF Handler(detected_intent) = "analyze"
            THEN Next_("analyze", AnalyzePrompt(active_contract))
            ELSE Respond(r, Failure(me, detected_intent, ErrUnknownIntent, ""))
    /\ UNCHANGED <<contract_sessions, next_contract, clock, draft_log, handled, rel, case_vars>>

\* The type-detection call of DRAFT returns; the drafting call is next.
TypeDetect(r) ==
    /\ req[r].pc = "type"
    /\ \E type_result \in Outcomes(TypeAnswers) :
        req' = [req EXCEPT ![r] =
            [@ EXCEPT !.pc = "draft",
                      !.calls = Append(@, "type"),
                      !.result = type_result,
                      !.contract_type = ContractTypeOf(type_result),
                      !.prompt = Prompt("drafting", NoText, req[r].query)]]
    /\ UNCHANGED <<contract_sessions, next_contract, clock, draft_log, handled, rel, case_vars>>

\* Mutant: the contract is stored without looking at result["success"].
DraftStoreNoCheck(sessions, session_id, contract_id, result, contract_type, query) ==
    add_contract_to_session(sessions, session_id, contract_id,
                            IF result.success THEN result.response ELSE NoText,
                            contract_type, query)

\* Mutant: the new contract replaces the session's contracts.
DraftStoreReplacing(sessions, session_id, contract_id, result, contract_type, query) ==
    IF result.success
    THEN [sessions EXCEPT ![session_id] =
             [contracts |-> (contract_id :>
                  NewContract(result.response, contract_type, query)),
              active_contract_id |-> contract_id]]
    ELSE sessions

\* the new contract stored, the active pointer left where it was
DraftStoreNotActivated(sessions, session_id, contract_id, result, contract_type, query) ==
    IF result.success
    THEN [add_contract_to_session(sessions, session_id, contract_id,
                                  result.response, contract_type, query)
             EXCEPT ![session_id].active_contract_id =
                        sessions[session_id].active_contract_id]
    ELSE sessions

\* if result["success"]: add_contract_to_session(...)
DraftStore(sessions, session_id, contract_id, result, contract_type, query) ==
    IF result.success
    THEN add_contract_to_session(sessions, session_id, contract_id,
                                 result.response, contract_type, query)
    ELSE sessions

\* The drafting call returns.
Draft(r) ==
    /\ req[r].pc = "draft"
    /\ \E result \in Outcomes(LlmTexts) :
        LET me == [req[r] EXCEPT !.calls = Append(@, "draft"),
                                 !.result = result]
            contract_id == next_contract + 1
            stored == DraftStore(contract_sessions, me.session_id, contract_id,
                                 result, me.contract_type, me.query)
        IN  /\ contract_sessions' = stored
            /\ next_contract' = IF result.success THEN contract_id
                                ELSE next_contract
            /\ draft_log' = IF result.success
                            THEN Append(draft_log, <<me.session_id, contract_id>>)
                            ELSE draft_log
            /\ IF result.success
               THEN Respond(r, [me EXCEPT !.response =
                        [BaseResponse(me.query) EXCEPT
                            !.success = TRUE,
                            !.session_id = me.session_id,
                            !.contract_text = result.response,
                            !.contract_type = me.contract_type,
                            !.detected_intent = DRAFT,
                            !.is_new_session = me.is_new_session,
                            !.contracts_in_session =
                                get_contracts_summary(stored, me.session_id)]])
               ELSE Respond(r, Failure(me, DRAFT, ErrGenerating, result.error))
    /\ UNCHANGED <<clock, handled, rel, case_vars>>

\* The question-answering call returns.
Question(r) ==
    /\ req[r].pc = "question"
    /\ \E result \in Outcomes(LlmTexts) :
        LET me == [req[r] EXCEPT !.calls = Append(@, "question"),
                                 !.result = result] IN
        IF result.success
        THEN Respond(r, [me EXCEPT !.response =
                 [BaseResponse(me.query) EXCEPT
                     !.success = TRUE,
                     !.session_id = me.session_id,
                     !.answer = result.response,
                     !.detected_intent = QUESTION,
                     !.contracts_in_session =
                         get_contracts_summary(contract_sessions, me.session_id)]])
        ELSE Respond(r, Failure(me, QUESTION, ErrQuestion, result.error))
    /\ UNCHANGED <<contract_sessions, next_contract, clock, draft_log, handled, rel, case_vars>>

\* Mutant: the write is made without looking at result["success"].
ModifyStoreNoCheck(sessions, session_id, result, query, timestamp) ==
    ApplyModification(sessions, session_id,
                      IF result.success THEN result.response ELSE NoText,
                      query, timestamp)

\* if result["success"]: the write of lines 773-778
ModifyStore(sessions, session_id, result, query, timestamp) ==
    IF result.success
    THEN ApplyModification(sessions, session_id, result.response, query, timestamp)
    ELSE sessions

\* The modification call returns.
Modify(r) ==
    /\ req[r].pc = "modify"
    /\ \E result \in Outcomes(LlmTexts) :
        LET me == [req[r] EXCEPT !.calls = Append(@, "modify"),
                                 !.result = result]
            active_contract_id ==
                contract_sessions[me.session_id].active_contract_id
            stored == ModifyStore(contract_sessions, me.session_id, result,
                                  me.query, clock + 1)
        IN  /\ contract_sessions' = stored
            /\ clock' = IF result.success THEN clock + 1 ELSE clock
            /\ IF result.success
               THEN Respond(r, [me EXCEPT
                        !.wrote = active_contract_id,
                        !.response =
                        [BaseResponse(me.query) EXCEPT
                            !.success = TRUE,
                            !.session_id = me.session_id,
                            !.contract_text = result.response,
                            !.modification_history =
                                stored[me.session_id].contracts[active_contract_id]
                                    .modification_history,
                            !.detected_intent = MODIFY,
                            !.contracts_in_session =
                                get_contracts_summary(stored, me.session_id)]])
               ELSE Respond(r, Failure(me, MODIFY, ErrModifying, result.error))
    /\ UNCHANGED <<next_contract, draft_log, handled, rel, case_vars>>

\* The analysis call returns.
Analyze(r) ==
    /\ req[r].pc = "analyze"
    /\ \E result \in Outcomes(LlmTexts) :
        LET me == [req[r] EXCEPT !.calls = Append(@, "analyze"),
                                 !.result = result] IN
        IF result.success
        THEN Respond(r, [me EXCEPT !.response =
                 [BaseResponse(me.query) EXCEPT
                     !.success = TRUE,
                     !.session_id = me.session_id,
                     !.contract_analysis = result.response,
                     !.detected_intent = ANALYZE,
                     !.contracts_in_session =
                         get_contracts_summary(contract_sessions, me.session_id)]])
        ELSE Respond(r, Failure(me, ANALYZE, ErrAnalyzing, result.error))
    /\ UNCHANGED <<contract_sessions, next_contract, clock, draft_log, handled, rel, case_vars>>

Next ==
    \E r \in Slots :
        \/ Receive(r)
        \/ Intent(r)
        \/ TypeDetect(r)
        \/ Draft(r)
        \/ Question(r)
        \/ Modify(r)
        \/ Analyze(r)

Spec == Init /\ [][Next]_vars

\* The endpoint with store helpers that may raise.
NextFault ==
    \/ Next
    \/ \E r \in Slots : ReceiveRaising(r)

SpecFault == Init /\ [][NextFault]_vars

(***************************************************************************)
(* The endpoint when handlers may interleave at their LLM calls: up to     *)
(* NumRacers handlers are in flight, each suspended at an LLM call, and    *)
(* they resume in any order.                                               *)
(***************************************************************************)
\* A race is between two handlers: one is suspended at its LLM call while
\* the other runs.
NumRacers == 2
Racers == 1..NumRacers

\* Requests taken up in a race.
MaxRacing == 2

\* The session the racing clients name.
RaceSession == create_or_get_session(<<>>, None)

\* The store after one successful DRAFT on a new session.
RaceStart ==
    add_contract_to_session(RaceSession.sessions, RaceSession.session_id, 1,
                            Text(1, 40), <<"N","D","A">>,
                            <<"d","r","a","f","t"," ","n","d","a">>)

InitRace ==
    /\ contract_sessions = RaceStart
    /\ next_contract = 1
    /\ req = [r \in Racers |-> IdleRequest]
    /\ handled = 0
    /\ clock = 0
    /\ draft_log = << <<RaceSession.session_id, 1>> >>
    /\ rel = RelIdle
    /\ CaseInit

\* A request on the session arrives while other handlers are in flight; it
\* is handled in the first slot that is free.
ReceiveRacing(r) ==
    /\ handled < MaxRacing
    /\ \A o \in Racers : o < r => req[o].pc \notin {"idle", "done", "crashed"}
    /\ \E query \in RaceQueries : Accept(r, query, RaceSession.session_id)

NextRace ==
    \E r \in Racers :
        \/ ReceiveRacing(r)
        \/ Intent(r)
        \/ TypeDetect(r)
        \/ Draft(r)
        \/ Question(r)
        \/ Modify(r)
        \/ Analyze(r)

SpecRace == InitRace /\ [][NextRace]_vars

(***************************************************************************)
(* The relevance filter on its own: check_question_relevance applied to a  *)
(* query of up to MaxWords words and one outcome of the LLM call.          *)
(***************************************************************************)
RelWords ==
    { <<"h","i">>, <<"t","h","i","s">>, <<"r","e","n","t">>,
      <<"c","o","n","t","r","a","c","t">>, <<"a","d","d">>, <<"r","e","v","i","e","w">>,
      <<"e","x","p","l","a","i","n">>, <<"n","d","a">>, <<"m","y">> }

RECURSIVE JoinWords(_)
JoinWords(words) ==
    IF Len(words) = 1 THEN words[1]
    ELSE words[1] \o <<" ">> \o JoinWords(Tail(words))

\* the queries a relevance filter is expected to reject and to accept
RejectedExamples ==
    { <<"h","e","l","l","o",","," ","h","o","w"," ","a","r","e"," ","y","o","u">>,
      <<"t","e","l","l"," ","m","e"," ","a"," ","j","o","k","e">> }

AcceptedExamples ==
    { <<"d","r","a","f","t"," ","a"," ","l","e","a","s","e"," ","a","g","r","e","e","m","e","n","t"," ","f","o","r"," ","$","1","5","0","0","/","m","o","n","t","h">>,
      <<"w","h","a","t"," ","i","s"," ","t","h","e"," ","r","e","n","t"," ","i","n"," ","m","y"," ","c","o","n","t","r","a","c","t">> }

RelQuestions ==
    {JoinWords(words) : words \in UNION {[1..n -> RelWords] : n \in 1..MaxWords}}
        \cup RejectedExamples \cup AcceptedExamples

InitRel ==
    /\ contract_sessions = <<>>
    /\ next_contract = 0
    /\ req = [r \in Slots |-> IdleRequest]
    /\ handled = 0
    /\ clock = 0
    /\ draft_log = <<>>
    /\ rel \in {[pc |-> "ready", question |-> question,
                 out |-> Decided(FALSE, "none", FALSE), llm |-> NoCall] :
                    question \in RelQuestions}
    /\ CaseInit

\* is_relevant = check_question_relevance(question)
RelCheck ==
    /\ rel.pc = "ready"
    /\ \E llm \in Outcomes(RelevanceAnswers) :
        LET out == check_question_relevance(rel.question, llm) IN
        rel' = [rel EXCEPT !.pc = "done", !.out = out,
                           !.llm = IF out.llm_called THEN llm ELSE NoCall]
    /\ UNCHANGED <<contract_sessions, next_contract, req, handled, clock, draft_log, case_vars>>

NextRel == RelCheck

SpecRel == InitRel /\ [][NextRel]_vars

\* The case-analysis service on its own.
SpecCase == Init /\ [][NextCase]_vars

(***************************************************************************)
(* C9.  When the relevance filter reaches the LLM fallback and the call    *)
(* succeeds, the query is accepted if the LLM answers RELEVANT and         *)
(* rejected if the LLM answers IRRELEVANT.                                 *)
(***************************************************************************)
RelLlmAnswer == Upper(Strip(rel.llm.response))

C9_LlmAnswerDecides ==
    (rel.pc = "done" /\ rel.out.stage = "llm") =>
        /\ (RelLlmAnswer = RELEVANT => rel.out.result)
        /\ (RelLlmAnswer = IRRELEVANT => ~ rel.out.result)

(***************************************************************************)
(* C10.  A query that contains at least one entry of the legal-domain      *)
(* keyword list is never rejected at the small-talk stage, whatever        *)
(* small-talk phrases occur in it.                                         *)
(***************************************************************************)
C10_KeywordPassesSmallTalk ==
    (rel.pc = "done" /\ KeywordAccept(QuestionLower(rel.question))) =>
        rel.out.stage # "smalltalk"

(***************************************************************************)
(* What the properties of the endpoint speak about.                        *)
(***************************************************************************)
Done(r) == req[r].pc = "done"

LastCall(r) == IF req[r].calls = <<>> THEN "none" ELSE req[r].calls[Len(req[r].calls)]

DocumentCalls == {"draft", "question", "modify", "analyze"}

\* The session the request named had no active document when it arrived.
NoActiveBefore(r) ==
    get_active_contract(req[r].pre, req[r].requested) = NoContract

\* Since `before`, no document was added, none changed, no pointer moved:
\* at most sessions with no documents were added.
DocumentsUnchanged(before, now) ==
    /\ DOMAIN before \subseteq DOMAIN now
    /\ \A s \in DOMAIN before : now[s] = before[s]
    /\ \A s \in DOMAIN now \ DOMAIN before : now[s] = NewSession

\* The contract ids created by the successful DRAFTs on session s, in order.
DraftsOn(s) ==
    LET OnS(e) == e[1] = s
        mine == SelectSeq(draft_log, OnS)
    IN  [i \in 1..Len(mine) |-> mine[i][2]]

(***************************************************************************)
(* C1.  Every session has at most one active document, and after N         *)
(* successful DRAFTs on a session, whatever else was requested on it, the  *)
(* session holds exactly N documents and its active pointer names the      *)
(* document of the Nth successful DRAFT.                                   *)
(***************************************************************************)
C1_DraftsCounted ==
    \A s \in DOMAIN contract_sessions :
        LET session == contract_sessions[s]
            drafts == DraftsOn(s)
            active == {c \in DOMAIN session.contracts :
                           c = session.active_contract_id}
        IN  /\ Cardinality(active) <= 1
            /\ Cardinality(DOMAIN session.contracts) = Len(drafts)
            /\ DOMAIN session.contracts = {drafts[i] : i \in 1..Len(drafts)}
            /\ session.active_contract_id =
                   IF drafts = <<>> THEN None ELSE drafts[Len(drafts)]

\* two DRAFTs on one session with a MODIFY between them
C1_Witness ==
    \E s \in DOMAIN contract_sessions :
        /\ Len(DraftsOn(s)) = 2
        /\ contract_sessions[s].active_contract_id = DraftsOn(s)[2]
        /\ contract_sessions[s].contracts[DraftsOn(s)[1]].modification_history # <<>>

(***************************************************************************)
(* C2.  A successful MODIFY replaces the active document's content by the  *)
(* LLM's response and appends exactly one record, holding the query, to    *)
(* its modification_history; the active pointer and the documents of the   *)
(* session are otherwise unchanged, and the response returns the stored    *)
(* content and history.                                                    *)
(***************************************************************************)
ModifySucceeded(r) ==
    /\ Done(r)
    /\ req[r].response.success
    /\ req[r].response.detected_intent = MODIFY

C2_ModifyReplacesAndAppends ==
    \A r \in Slots : ModifySucceeded(r) =>
        LET sid == req[r].session_id
            before == req[r].pre
            a == before[sid].active_contract_id
            old == before[sid].contracts[a]
            new == contract_sessions[sid].contracts[a]
        IN  /\ DOMAIN contract_sessions = DOMAIN before
            /\ \A s \in DOMAIN before \ {sid} : contract_sessions[s] = before[s]
            /\ contract_sessions[sid].active_contract_id = a
            /\ DOMAIN contract_sessions[sid].contracts = DOMAIN before[sid].contracts
            /\ \A c \in DOMAIN before[sid].contracts \ {a} :
                   contract_sessions[sid].contracts[c] = before[sid].contracts[c]
            /\ new.contract_text = req[r].result.response
            /\ new.contract_type = old.contract_type
            /\ new.query = old.query
            /\ Len(new.modification_history) = Len(old.modification_history) + 1
            /\ SubSeq(new.modification_history, 1, Len(old.modification_history))
                   = old.modification_history
            /\ new.modification_history[Len(new.modification_history)].request
                   = req[r].query
            /\ req[r].response.contract_text = new.contract_text
            /\ req[r].response.modification_history = new.modification_history

\* the second modification of a document, changing its text
C2_Witness ==
    \E r \in Slots :
        /\ ModifySucceeded(r)
        /\ Len(req[r].response.modification_history) = 2
        /\ req[r].response.contract_text
               # get_active_contract(req[r].pre, req[r].session_id).contract_text

(***************************************************************************)
(* C3.  A QUESTION or ANALYZE request leaves the store unchanged, whether  *)
(* its LLM call succeeds or fails.                                         *)
(***************************************************************************)
C3_QuestionAnalyzeReadOnly ==
    \A r \in Slots :
        (Done(r) /\ req[r].detected_intent \in {QUESTION, ANALYZE}) =>
            DocumentsUnchanged(req[r].pre, contract_sessions)

\* an ANALYZE whose LLM call succeeded, on a document that was modified before
C3_Witness ==
    \E r \in Slots :
        /\ Done(r)
        /\ req[r].detected_intent = ANALYZE
        /\ LastCall(r) = "analyze"
        /\ req[r].response.success
        /\ get_active_contract(contract_sessions, req[r].session_id)
               .modification_history # <<>>

(***************************************************************************)
(* C4.  When the LLM call of a document operation fails, the response has  *)
(* success = false and carries the upstream error text, and the store is   *)
(* unchanged.                                                              *)
(***************************************************************************)
OperationError(call) ==
    CASE call = "draft" -> ErrGenerating
      [] call = "question" -> ErrQuestion
      [] call = "modify" -> ErrModifying
      [] call = "analyze" -> ErrAnalyzing

C4_LlmFailureLeavesStore ==
    \A r \in Slots :
        (Done(r) /\ LastCall(r) \in DocumentCalls /\ ~ req[r].result.success) =>
            /\ ~ req[r].response.success
            /\ req[r].response.error = OperationError(LastCall(r))
            /\ req[r].response.upstream = req[r].result.error
            /\ DocumentsUnchanged(req[r].pre, contract_sessions)

\* a failed MODIFY on a session that holds a document
C4_Witness ==
    \E r \in Slots :
        /\ Done(r)
        /\ LastCall(r) = "modify"
        /\ req[r].response.upstream = "timeout"
        /\ get_active_contract(contract_sessions, req[r].session_id) # NoContract

(***************************************************************************)
(* C5.  QUESTION, MODIFY or ANALYZE on a session with no active document   *)
(* fails with the guidance to draft first, creates and changes no          *)
(* document and does not make the operation's LLM call.                    *)
(***************************************************************************)
C5_NoActiveDocumentFails ==
    \A r \in Slots :
        (/\ Done(r)
         /\ req[r].detected_intent \in {QUESTION, MODIFY, ANALYZE}
         /\ NoActiveBefore(r)) =>
            /\ ~ req[r].response.success
            /\ req[r].response.error = ErrNoActive
            /\ LastCall(r) = "intent"
            /\ DocumentsUnchanged(req[r].pre, contract_sessions)

\* a MODIFY without session id while another session holds a document
C5_Witness ==
    \E r \in Slots :
        /\ Done(r)
        /\ req[r].detected_intent = MODIFY
        /\ NoActiveBefore(r)
        /\ \E s \in DOMAIN req[r].pre : req[r].pre[s].active_contract_id # None

(***************************************************************************)
(* C6.  A successful DRAFT on a session that holds documents keeps every   *)
(* earlier document as it was, adds the new document beside them and       *)
(* moves only the active pointer, to the new document.                     *)
(***************************************************************************)
DraftSucceeded(r) ==
    /\ Done(r)
    /\ req[r].response.success
    /\ req[r].response.detected_intent = DRAFT

C6_DraftNonDestructive ==
    \A r \in Slots : DraftSucceeded(r) =>
        LET sid == req[r].session_id
            before == req[r].pre
            was == IF sid \in DOMAIN before THEN before[sid] ELSE NewSession
            new == contract_sessions[sid].active_contract_id
        IN  /\ DOMAIN before \subseteq DOMAIN contract_sessions
            /\ \A s \in DOMAIN before \ {sid} : contract_sessions[s] = before[s]
            /\ \A c \in DOMAIN was.contracts :
                   /\ c \in DOMAIN contract_sessions[sid].contracts
                   /\ contract_sessions[sid].contracts[c] = was.contracts[c]
            /\ new \notin DOMAIN was.contracts
            /\ DOMAIN contract_sessions[sid].contracts
                   = DOMAIN was.contracts \cup {new}
            /\ contract_sessions[sid].contracts[new].contract_text
                   = req[r].response.contract_text

\* a DRAFT on a session whose earlier document had been modified
C6_Witness ==
    \E r \in Slots :
        /\ DraftSucceeded(r)
        /\ req[r].session_id \in DOMAIN req[r].pre
        /\ \E c \in DOMAIN req[r].pre[req[r].session_id].contracts :
               req[r].pre[req[r].session_id].contracts[c].modification_history # <<>>

(***************************************************************************)
(* C7.  On a session with no active document the response reports the     *)
(* classifier's answer, trimmed and upper-cased, whatever it is: QUESTION, *)
(* MODIFY or ANALYZE are reported too, but only with success = false and   *)
(* the guidance to draft first, and the only intent reported with          *)
(* success = true is DRAFT.                                                *)
(***************************************************************************)
Classified(r) ==
    /\ Done(r)
    /\ "intent" \in {req[r].calls[i] : i \in 1..Len(req[r].calls)}
    /\ req[r].intent_answer # <<>>

C7_IntentEchoedWithoutDocument ==
    \A r \in Slots : (Classified(r) /\ NoActiveBefore(r)) =>
        /\ req[r].response.detected_intent = Upper(Strip(req[r].intent_answer))
        /\ req[r].response.detected_intent \in {QUESTION, MODIFY, ANALYZE} =>
               (~ req[r].response.success /\ req[r].response.error = ErrNoActive)
        /\ req[r].response.success => req[r].response.detected_intent = DRAFT

\* the classifier answers QUESTION on a fresh session
C7_Witness ==
    \E r \in Slots :
        /\ Classified(r)
        /\ NoActiveBefore(r)
        /\ req[r].response.detected_intent = QUESTION

\* C7 as stated: with no active document the reported intent is DRAFT or
\* INVALID, never QUESTION, MODIFY or ANALYZE.
C7_OnlyDraftOrInvalid ==
    \A r \in Slots : (Classified(r) /\ NoActiveBefore(r)) =>
        /\ req[r].response.detected_intent \in {DRAFT, INVALID}
        /\ req[r].response.detected_intent \notin {QUESTION, MODIFY, ANALYZE}

(***************************************************************************)
(* C8.  In QUESTION, MODIFY and ANALYZE the document text embedded in the  *)
(* prompt is the prefix of the stored content of length                    *)
(* min(len(content), 20000), so a document longer than the budget is       *)
(* never passed to the LLM in full.                                        *)
(***************************************************************************)
C8_PromptTextIsPrefix ==
    \A r \in Slots : req[r].pc \in {"question", "modify", "analyze"} =>
        LET content == get_active_contract(contract_sessions,
                                           req[r].session_id).contract_text
        IN  /\ req[r].prompt.contract_text = Prefix(content, PromptBudget)
            /\ req[r].prompt.contract_text.len = Min(content.len, PromptBudget)
            /\ req[r].prompt.contract_text.len <= PromptBudget

(***************************************************************************)
(* C11.  The heuristic layers of the relevance filter decide without an    *)
(* LLM call whenever they are conclusive: a query with a small-talk phrase *)
(* and no contract indicator is rejected, a query with a legal-domain      *)
(* keyword and no small-talk phrase is accepted, the four example queries  *)
(* get their expected verdicts, and the LLM is called (once) exactly when  *)
(* no heuristic layer was conclusive.                                      *)
(***************************************************************************)
C11_HeuristicsDecideWithoutLlm ==
    rel.pc = "done" =>
        LET q == Strip(Lower(rel.question))
            smalltalk == ContainsAny(q, non_contract_phrases)
            indicator == ContainsAny(q, contract_indicators)
            keyword == ContainsAny(q, contract_keywords)
            conclusive ==
                \/ smalltalk /\ ~ indicator
                \/ keyword
                \/ ContainsAny(q, modification_keywords)
                      /\ ContainsAny(q, modification_contract_context)
                \/ ContainsAny(q, contract_question_patterns)
                \/ ContainsAny(q, analysis_keywords)
                      /\ ContainsAny(q, analysis_contract_context)
        IN  /\ (smalltalk /\ ~ indicator) =>
                    (~ rel.out.result /\ ~ rel.out.llm_called)
            /\ (keyword /\ ~ smalltalk) =>
                    (rel.out.result /\ ~ rel.out.llm_called)
            /\ rel.question \in RejectedExamples =>
                    (~ rel.out.result /\ ~ rel.out.llm_called)
            /\ rel.question \in AcceptedExamples =>
                    (rel.out.result /\ ~ rel.out.llm_called)
            /\ rel.out.llm_called <=> ~ conclusive
            /\ rel.out.llm_called <=> rel.llm # NoCall

\* an example query rejected and one accepted by the heuristics alone
C11_Witness ==
    /\ rel.pc = "done"
    /\ rel.question \in RejectedExamples \cup AcceptedExamples
    /\ ~ rel.out.llm_called
    /\ rel.out.result <=> rel.question \in AcceptedExamples

(***************************************************************************)
(* C12.  A query rejected by the relevance filter is answered at once with *)
(* success=false and the fixed rejection message: the response carries no  *)
(* session_id, no session is created or resolved, the intent LLM call is   *)
(* not made, and the session store is what it was.                         *)
(***************************************************************************)
RejectedAsIrrelevant(r) ==
    /\ Done(r)
    /\ req[r].query # <<>>
    /\ ~ req[r].is_relevant

C12_IrrelevantRejectedAtOnce ==
    \A r \in Slots : RejectedAsIrrelevant(r) =>
        /\ req[r].response =
                [BaseResponse(req[r].query) EXCEPT !.error = ErrIrrelevant]
        /\ req[r].response.session_id = None
        /\ req[r].session_id = None
        /\ \A i \in 1..Len(req[r].calls) : req[r].calls[i] = "relevance"
        /\ Len(req[r].calls) <= 1
        /\ contract_sessions = req[r].pre

\* a query rejected while a session is live, once by the small-talk layer
\* and once by the LLM's answer
C12_Witness ==
    \E r \in Slots :
        /\ RejectedAsIrrelevant(r)
        /\ req[r].pre # <<>>
        /\ req[r].requested \in DOMAIN req[r].pre

(***************************************************************************)
(* C13.  No exception raised while a request is handled leaves the handler *)
(* as a raw fault: every request, also one whose session lookup raises,    *)
(* ends in a normal response.                                              *)
(***************************************************************************)
C13_NoRawFault ==
    \A r \in Slots : req[r].pc # "crashed"

\* The LLM calls a request has made.
CallsOf(r) == {req[r].calls[i] : i \in 1..Len(req[r].calls)}

\* How often the request has made the LLM call `call`.
CallCount(r, call) ==
    Cardinality({i \in 1..Len(req[r].calls) : req[r].calls[i] = call})

\* The intent call of the request was answered, and the answer trimmed and
\* upper-cased is `intent`.
Answered(r, intent) ==
    /\ req[r].intent_answer # <<>>
    /\ Upper(Strip(req[r].intent_answer)) = intent

(***************************************************************************)
(* C14.  When the classifier answers DRAFT and the raw query contains,     *)
(* case-insensitively and as a substring, none of draft, create, make,     *)
(* write, generate, contract, agreement, the request fails with            *)
(* success=false, detected_intent DRAFT and the guidance error, without    *)
(* the type-detection or drafting call and without adding a document.      *)
(***************************************************************************)
NamesNoDrafting(query) ==
    \A word \in { <<"d","r","a","f","t">>, <<"c","r","e","a","t","e">>,
                  <<"m","a","k","e">>, <<"w","r","i","t","e">>,
                  <<"g","e","n","e","r","a","t","e">>,
                  <<"c","o","n","t","r","a","c","t">>,
                  <<"a","g","r","e","e","m","e","n","t">> } :
        ~ Contains(Lower(query), word)

C14_DraftWithoutKeywordFails ==
    \A r \in Slots :
        (Answered(r, DRAFT) /\ NamesNoDrafting(req[r].query)) =>
            /\ Done(r)
            /\ ~ req[r].response.success
            /\ req[r].response.detected_intent = DRAFT
            /\ req[r].response.error = ErrDraftKeyword
            /\ req[r].response.session_id = req[r].session_id
            /\ CallsOf(r) \cap {"type", "draft"} = {}
            /\ LastCall(r) = "intent"
            /\ DocumentsUnchanged(req[r].pre, contract_sessions)

\* a DRAFT answer for a query without drafting keyword, on a session that
\* has a document
C14_Witness ==
    \E r \in Slots :
        /\ Answered(r, DRAFT)
        /\ NamesNoDrafting(req[r].query)
        /\ Done(r)
        /\ req[r].has_active_contract

(***************************************************************************)
(* C15.  An INVALID classification is terminal: the request returns        *)
(* success=false with detected_intent INVALID and the guidance message,    *)
(* the classifier was asked once, no LLM call follows, and no document or  *)
(* active pointer changes, whether or not the session has an active        *)
(* document.                                                               *)
(***************************************************************************)
C15_InvalidIsTerminal ==
    \A r \in Slots :
        Answered(r, INVALID) =>
            /\ Done(r)
            /\ ~ req[r].response.success
            /\ req[r].response.detected_intent = INVALID
            /\ req[r].response.error = ErrInvalid
            /\ req[r].response.session_id = req[r].session_id
            /\ CallCount(r, "intent") = 1
            /\ LastCall(r) = "intent"
            /\ DocumentsUnchanged(req[r].pre, contract_sessions)

\* an INVALID answer on a session with an active document
C15_Witness ==
    \E r \in Slots :
        /\ Answered(r, INVALID)
        /\ Done(r)
        /\ req[r].has_active_contract
        /\ get_active_contract(contract_sessions, req[r].session_id) # NoContract

(***************************************************************************)
(* C16.  Session resolution reuses the requested session_id exactly when   *)
(* it names a live session: the request is then handled on that session,   *)
(* sees its documents and is answered with the same session_id.  Without   *)
(* a session_id, or with one that is not live, a new identifier different  *)
(* from every existing one is minted and starts with an empty document map *)
(* and a null active pointer; the unknown requested id is never adopted.   *)
(***************************************************************************)
\* The request has passed the relevance filter: its session is resolved.
SessionResolved(r) == req[r].pc \notin {"idle", "crashed"} /\ req[r].is_relevant

NamesLiveSession(r) ==
    req[r].requested # None /\ req[r].requested \in DOMAIN req[r].pre

C16_SessionResolution ==
    /\ UnknownId \notin DOMAIN contract_sessions
    /\ \A r \in Slots : SessionResolved(r) =>
        LET pre == req[r].pre
            session_id == req[r].session_id
        IN  /\ session_id \in DOMAIN contract_sessions
            /\ Done(r) => req[r].response.session_id = session_id
            /\ IF NamesLiveSession(r)
               THEN /\ session_id = req[r].requested
                    /\ ~ req[r].is_new_session
                    /\ DOMAIN contract_sessions = DOMAIN pre
                    /\ req[r].has_active_contract <=>
                            pre[session_id].active_contract_id # None
                    /\ req[r].pc = "intent" => contract_sessions = pre
               ELSE /\ session_id \notin DOMAIN pre
                    /\ session_id # req[r].requested
                    /\ req[r].is_new_session
                    /\ ~ req[r].has_active_contract
                    /\ DOMAIN contract_sessions = DOMAIN pre \cup {session_id}
                    /\ req[r].pc = "intent" =>
                            contract_sessions = pre @@ (session_id :> NewSession)

\* a request naming a session that is not live is answered on a new
\* session, next to the sessions that are
C16_Witness ==
    \E r \in Slots :
        /\ Done(r)
        /\ SessionResolved(r)
        /\ req[r].requested = UnknownId
        /\ req[r].pre # <<>>
        /\ req[r].response.success

(***************************************************************************)
(* C17.  With handlers that interleave at their LLM calls, a MODIFY whose  *)
(* LLM call succeeds writes the document the session's active pointer      *)
(* names when the call returns: it replaces that document's text, appends  *)
(* one record to its history and leaves every other document alone, so     *)
(* after a DRAFT that completed in between it writes the newly drafted     *)
(* document and not the one whose text is in its prompt.                   *)
(***************************************************************************)
\* The step in which the modification call of request r returns with a text.
ModifyWrites(r) ==
    /\ req[r].pc = "modify"
    /\ req'[r].pc = "done"
    /\ req'[r].result.success

ModifyWritesActive(r) ==
    LET s == req[r].session_id
        active == contract_sessions[s].active_contract_id
        before == contract_sessions[s].contracts
        after == contract_sessions'[s].contracts
    IN  /\ DOMAIN after = DOMAIN before
        /\ after[active].contract_text = req'[r].result.response
        /\ Len(after[active].modification_history) =
               Len(before[active].modification_history) + 1
        /\ after[active].modification_history[
               Len(after[active].modification_history)].request = req[r].query
        /\ \A c \in DOMAIN before \ {active} : after[c] = before[c]
        /\ contract_sessions'[s].active_contract_id = active
        /\ req'[r].wrote = active

C17_ModifyWritesCurrentActive ==
    [][\A r \in DOMAIN req : ModifyWrites(r) => ModifyWritesActive(r)]_vars

\* A MODIFY has written a document drafted after its prompt was built: the
\* document in its prompt is untouched, the new one has its text and record.
C17_Witness ==
    \E r \in DOMAIN req :
        /\ ModifySucceeded(r)
        /\ req[r].embedded # None
        /\ req[r].wrote # req[r].embedded
        /\ LET docs == contract_sessions[req[r].session_id].contracts IN
            /\ docs[req[r].embedded].contract_text = req[r].prompt.contract_text
            /\ docs[req[r].embedded].modification_history = <<>>
            /\ docs[req[r].wrote].contract_text = req[r].response.contract_text
            /\ Len(docs[req[r].wrote].modification_history) = 1

(***************************************************************************)
(* C18.  When two MODIFYs on a session interleave so that both build their *)
(* prompt from the active document before either writes it, the document   *)
(* ends with the LLM response of the request that wrote last, and its      *)
(* modification_history holds one record for each of the two requests.     *)
(***************************************************************************)
\* The timestamp of the record a successful MODIFY appended.
WroteAt(r) ==
    LET history == req[r].response.modification_history
    IN  history[Len(history)].timestamp

\* How many records of the history are the one request r appended.
RecordsOf(r, history) ==
    Cardinality({i \in 1..Len(history) :
        history[i] = ModificationRecord(req[r].query, WroteAt(r))})

\* first and last are two MODIFYs of one document, both read before either
\* wrote, first wrote before last, and nothing was written after them.
RacedModifies(first, last) ==
    /\ first # last
    /\ ModifySucceeded(first) /\ ModifySucceeded(last)
    /\ req[first].session_id = req[last].session_id
    /\ req[first].wrote = req[last].wrote
    /\ req[first].embedded = req[first].wrote
    /\ req[last].embedded = req[last].wrote
    /\ req[last].read_at < WroteAt(first)
    /\ WroteAt(first) < WroteAt(last)
    /\ LET history == contract_sessions[req[last].session_id]
                           .contracts[req[last].wrote].modification_history
       IN  history[Len(history)].timestamp = WroteAt(last)

C18_LastWriteWins ==
    \A first, last \in DOMAIN req : RacedModifies(first, last) =>
        LET doc == contract_sessions[req[last].session_id].contracts[req[last].wrote]
        IN  /\ doc.contract_text = req[last].response.contract_text
            /\ RecordsOf(first, doc.modification_history) = 1
            /\ RecordsOf(last, doc.modification_history) = 1
            /\ Len(doc.modification_history) >= 2

\* two raced MODIFYs that got different texts from the LLM: the text of the
\* first is nowhere in the document
C18_Witness ==
    \E first, last \in DOMAIN req :
        /\ RacedModifies(first, last)
        /\ req[first].response.contract_text # req[last].response.contract_text
        /\ req[first].prompt.contract_text = req[last].prompt.contract_text
        /\ contract_sessions[req[last].session_id].contracts[req[last].wrote]
               .contract_text # req[first].response.contract_text

(***************************************************************************)
(* C19.  Sessions are isolated: a document belongs to exactly one session, *)
(* a session's active pointer names one of its own documents, and a step   *)
(* of a request handled on session S changes no document and no active     *)
(* pointer of another session.                                             *)
(***************************************************************************)
OwnershipExclusive ==
    /\ \A s, t \in DOMAIN contract_sessions :
            s # t => DOMAIN contract_sessions[s].contracts
                        \cap DOMAIN contract_sessions[t].contracts = {}
    /\ \A s \in DOMAIN contract_sessions :
            contract_sessions[s].active_contract_id # None =>
                contract_sessions[s].active_contract_id
                    \in DOMAIN contract_sessions[s].contracts

\* The handler of a request resolved to session s takes a step.
StepOn(s) ==
    \E r \in DOMAIN req :
        /\ req[r].pc \notin {"idle", "done", "crashed"}
        /\ req[r].session_id = s
        /\ req'[r] # req[r]

OthersUntouched ==
    /\ DOMAIN contract_sessions \subseteq DOMAIN contract_sessions'
    /\ \A s \in DOMAIN contract_sessions :
            contract_sessions'[s] # contract_sessions[s] => StepOn(s)
    /\ \A s \in DOMAIN contract_sessions' \ DOMAIN contract_sessions :
            contract_sessions'[s] = NewSession

C19_SessionsIsolated ==
    []OwnershipExclusive /\ [][OthersUntouched]_vars

\* a DRAFT or MODIFY has succeeded on one session while another session
\* holds an active document, which is as it was when the request arrived
C19_Witness ==
    \E r \in Slots :
        /\ Done(r)
        /\ req[r].response.success
        /\ req[r].response.detected_intent \in {DRAFT, MODIFY}
        /\ \/ req[r].session_id \notin DOMAIN req[r].pre
           \/ contract_sessions[req[r].session_id] # req[r].pre[req[r].session_id]
        /\ \E t \in DOMAIN req[r].pre \ {req[r].session_id} :
            /\ req[r].pre[t].active_contract_id # None
            /\ t < req[r].session_id
            /\ contract_sessions[t] = req[r].pre[t]

(***************************************************************************)
(* C21.  In every reachable state a session's active pointer is null       *)
(* exactly when the session holds no document, and otherwise names a       *)
(* document of that session; so the document a MODIFY writes through the   *)
(* pointer is always there.                                                *)
(***************************************************************************)
PointerConsistent(session) ==
    /\ session.active_contract_id = None <=> DOMAIN session.contracts = {}
    /\ session.active_contract_id # None =>
           session.active_contract_id \in DOMAIN session.contracts

C21_ActivePointerConsistent ==
    /\ \A s \in DOMAIN contract_sessions : PointerConsistent(contract_sessions[s])
    /\ \A r \in DOMAIN req :
           req[r].pc = "modify" =>
               contract_sessions[req[r].session_id].active_contract_id
                   \in DOMAIN contract_sessions[req[r].session_id].contracts
    /\ \A r \in DOMAIN req :
           ModifySucceeded(r) =>
               req[r].wrote \in DOMAIN contract_sessions[req[r].session_id].contracts

\* a MODIFY has written the later of the two documents of a session, which
\* is the one the pointer names
C21_Witness ==
    \E r \in DOMAIN req :
        LET session == contract_sessions[req[r].session_id] IN
        /\ ModifySucceeded(r)
        /\ Cardinality(DOMAIN session.contracts) = 2
        /\ req[r].wrote = session.active_contract_id
        /\ \A c \in DOMAIN session.contracts : c <= req[r].wrote

(***************************************************************************)
(* C22.  When the relevance filter reaches the LLM call and the call       *)
(* fails, the filter returns false whatever the query: each word of the    *)
(* coarse re-check (agreement, contract, lease, landlord, tenant, party)   *)
(* is a legal-domain keyword, and a query containing one was accepted      *)
(* before the LLM was asked.                                               *)
(***************************************************************************)
RelLlmFailed ==
    /\ rel.pc = "done"
    /\ rel.out.llm_called
    /\ ~ rel.llm.success

C22_FailureFallbackRejects ==
    /\ contract_mentions \subseteq contract_keywords
    /\ RelLlmFailed =>
           /\ ~ rel.out.result
           /\ ~ ContainsAny(Strip(Lower(rel.question)), contract_mentions)

\* a query of two words that no heuristic layer decides, the LLM call failed
C22_Witness ==
    /\ RelLlmFailed
    /\ rel.llm \in {LlmFail(e) : e \in UpstreamErrors}
    /\ Contains(rel.question, <<" ">>)
    /\ ~ rel.out.result

(***************************************************************************)
(* C23.  The dispatcher compares the classifier's answer, trimmed and      *)
(* upper-cased, by equality.  An answer that is then none of DRAFT,        *)
(* QUESTION, MODIFY, ANALYZE, INVALID gives success=false with that string *)
(* as detected_intent, no further LLM call and no change of the store; the *)
(* error is the 'draft a contract first' guidance when the session has no  *)
(* active document and the 'couldn't understand' guidance when it has one. *)
(* An answer that equals one of the five after trimming and upper-casing   *)
(* is dispatched as that intent.                                           *)
(***************************************************************************)
KnownIntents == {DRAFT, QUESTION, MODIFY, ANALYZE, INVALID}

AnsweredUnknown(r) ==
    /\ req[r].intent_answer # <<>>
    /\ Upper(Strip(req[r].intent_answer)) \notin KnownIntents

C23_UnknownIntentFails ==
    \A r \in Slots :
        /\ AnsweredUnknown(r) =>
            /\ Done(r)
            /\ ~ req[r].response.success
            /\ req[r].response.detected_intent = Upper(Strip(req[r].intent_answer))
            /\ req[r].response.session_id = req[r].session_id
            /\ LastCall(r) = "intent"
            /\ contract_sessions =
                   create_or_get_session(req[r].pre, req[r].requested).sessions
            /\ req[r].response.error =
                   IF get_active_contract(contract_sessions, req[r].session_id)
                          = NoContract
                   THEN ErrNoActive ELSE ErrUnknownIntent
        /\ (Done(r) /\ req[r].response.error = ErrUnknownIntent) =>
               AnsweredUnknown(r)
        /\ \A intent \in KnownIntents :
               (Done(r) /\ Answered(r, intent)) =>
                   req[r].response.detected_intent = intent

\* the answer "DRAFT." on a session with an active document
C23_Witness ==
    \E r \in Slots :
        /\ AnsweredUnknown(r)
        /\ Done(r)
        /\ req[r].response.error = ErrUnknownIntent
        /\ req[r].has_active_contract

\* the same answer on a session without one
C23_WitnessNoDocument ==
    \E r \in Slots :
        /\ AnsweredUnknown(r)
        /\ Done(r)
        /\ req[r].response.error = ErrNoActive

(***************************************************************************)
(* C24.  A request creates at most one session, and the session_id of its  *)
(* response is the session the request was handled on; also when an        *)
(* exception is caught after the session was resolved.                     *)
(***************************************************************************)
\* The sessions that exist now and did not when request r arrived.
CreatedBy(r) == DOMAIN contract_sessions \ DOMAIN req[r].pre

C24_OneSessionPerRequest ==
    \A r \in Slots : Done(r) =>
        /\ Cardinality(CreatedBy(r)) <= 1
        /\ req[r].session_id # None =>
               req[r].response.session_id = req[r].session_id

(***************************************************************************)
(* C25.  The response to a request that passed validation and the          *)
(* relevance filter names a live session, also when the request fails      *)
(* later; a failing request that named no live session leaves a new, empty *)
(* session behind; no session is ever removed, so the session count that   *)
(* /health reports never decreases.                                        *)
(***************************************************************************)
PassedFilter(r) ==
    /\ Done(r)
    /\ req[r].query # <<>>
    /\ req[r].is_relevant

ResponseNamesLiveSession ==
    \A r \in Slots : PassedFilter(r) =>
        /\ req[r].response.session_id \in DOMAIN contract_sessions
        /\ (~ req[r].response.success /\ ~ NamesLiveSession(r)) =>
               /\ req[r].response.session_id \notin DOMAIN req[r].pre
               /\ contract_sessions[req[r].response.session_id] = NewSession
               /\ health_check(contract_sessions).active_sessions
                      > health_check(req[r].pre).active_sessions

SessionsNeverRemoved ==
    /\ DOMAIN contract_sessions \subseteq DOMAIN contract_sessions'
    /\ health_check(contract_sessions').active_sessions
           >= health_check(contract_sessions).active_sessions

C25_ResponsesNameLiveSessions ==
    []ResponseNamesLiveSession /\ [][SessionsNeverRemoved]_vars

\* a drafting call failed for a request that named an unknown session, while
\* another session exists
C25_Witness ==
    \E r \in Slots :
        /\ PassedFilter(r)
        /\ LastCall(r) = "draft"
        /\ ~ req[r].response.success
        /\ req[r].requested = UnknownId
        /\ req[r].pre # <<>>
        /\ contract_sessions[req[r].response.session_id] = NewSession

(***************************************************************************)
(* C26.  After upload_and_analyze_case returns, case_sessions holds a new  *)
(* entry if and only if the upload succeeded.  The entry is registered     *)
(* before the summary call to the LLM; while that call is out the entry    *)
(* is there, and when the call fails it is removed again.  A failed        *)
(* upload (no or unsupported extension, a file that cannot be saved or     *)
(* read, an LLM failure) leaves case_sessions exactly as it was before     *)
(* the request; a successful one adds the entry under the returned         *)
(* session_id and changes no other.                                        *)
(***************************************************************************)
\* now is before plus one entry under session_id, the rest untouched.
AddsOnly(before, now, session_id) ==
    /\ session_id \notin DOMAIN before
    /\ DOMAIN now = DOMAIN before \cup {session_id}
    /\ \A k \in DOMAIN before : now[k] = before[k]

C26_UploadRegistersIffSucceeds ==
    case_req.kind = "upload" =>
        /\ case_req.pc = "summary" =>
              /\ case_req.llm_calls = 0
              /\ AddsOnly(case_req.pre, case_sessions, case_req.session_id)
        /\ case_req.pc = "done" =>
              IF case_req.response.status = 200
              THEN /\ case_req.response.session_id = case_req.session_id
                   /\ AddsOnly(case_req.pre, case_sessions, case_req.session_id)
              ELSE case_sessions = case_req.pre

\* An upload into a store that holds a session already was registered,
\* reached the LLM, and failed there.
C26_Witness ==
    /\ case_req.kind = "upload"
    /\ case_req.pc = "done"
    /\ case_req.llm_calls = 1
    /\ case_req.response.status = 500
    /\ DOMAIN case_req.pre # {}

(***************************************************************************)
(* C27.  delete_session removes exactly the named session and no other.    *)
(* A deleted id never comes back into case_sessions, and every later       *)
(* ask-question, get-session or delete for it is answered 404 'Session     *)
(* not found', the ask-question without a call to the LLM.  A delete of    *)
(* an id that is not in case_sessions is answered 404 and leaves           *)
(* case_sessions unchanged.  ask-question never modifies case_sessions.    *)
(***************************************************************************)
NotFoundDetails == {ErrSessionNotFound, ErrAskSessionNotFound}

ReportsNotFound(response) ==
    /\ response.status = 404
    /\ response.detail \in NotFoundDetails

\* now is before without the entry under session_id, the rest untouched.
RemovesOnly(before, now, session_id) ==
    /\ DOMAIN now = DOMAIN before \ {session_id}
    /\ \A k \in DOMAIN now : now[k] = before[k]

DeletedStaysGone == \A id \in case_log.deleted : id \notin DOMAIN case_sessions

\* The request in hand names a session that an earlier request deleted.
OnDeleted ==
    /\ case_req.kind \in {"ask", "get", "delete"}
    /\ case_req.session_id \in case_log.deleted
    /\ case_req.session_id \notin DOMAIN case_req.pre

C27_DeleteRemovesExactlyOne ==
    /\ DeletedStaysGone
    /\ OnDeleted =>
          /\ case_req.pc = "done"
          /\ ReportsNotFound(case_req.response)
          /\ case_req.llm_calls = 0
    /\ case_req.kind = "delete" =>
          IF case_req.session_id \in DOMAIN case_req.pre
          THEN /\ case_req.response.status = 200
               /\ RemovesOnly(case_req.pre, case_sessions, case_req.session_id)
          ELSE /\ ReportsNotFound(case_req.response)
               /\ case_sessions = case_req.pre
    /\ case_req.kind = "ask" => case_sessions = case_req.pre

\* A question on a session that was deleted before.
C27_Witness ==
    /\ case_req.kind = "ask"
    /\ case_req.pc = "done"
    /\ case_req.session_id \in case_log.deleted
    /\ ReportsNotFound(case_req.response)

====
